---- MODULE Spec2Model ----
(***************************************************************************)
(* Episodic bit-width allocation environment of finn_rl (ModelEnv):        *)
(* layer catalog, action mapper, episode controller, feasibility repair    *)
(* loop (final_action_wall) and baseline probe (maximum_fps).              *)
(*                                                                         *)
(* Conventions.  Python lists are TLA+ sequences; a Python index i is the  *)
(* element i + 1 of the sequence (At).  cur_ind and the indices produced   *)
(* by lexsort keep their Python (0-based) values.  A raw action and a frame *)
(* rate are pairs <<n, d>> standing for n / d, with d > 0; the configured  *)
(* target T is <<T, 1>>.                                                   *)
(***************************************************************************)
EXTENDS Integers, Sequences, FiniteSets, TLC

(***************************************************************************)
(* Bounds of the model.                                                    *)
(***************************************************************************)
\* longest network graph (number of call_module nodes) that is enumerated
MaxNodes == 2
\* the agent's raw actions are the multiples of 1 / ActDen in [-1, 1]
ActDen == 1
\* the cost evaluator reports cycle counts 0 .. MaxCycles
MaxCycles == 3
\* step is not called any more once the strategy list holds MaxStrategyLen entries
MaxStrategyLen == 3
\* get_action is evaluated on the raw actions k / ActGrid of [-1, 1]
ActGrid == 8
\* reward is evaluated on 0 .. MaxRes available and 0 .. MaxRes + 1 used units
\* of each resource
MaxRes == 3
\* and on the accuracies 100 * k / AccSteps percent, k in 0 .. AccSteps
AccSteps == 4
\* each of two concurrent environments exports its model MaxExports times
MaxExports == 2
\* the normalization is evaluated on feature values 0 .. MaxFeature
MaxFeature == 2
\* and on embeddings of 1 .. MaxRows rows
MaxRows == 3

(***************************************************************************)
(* Program constants.                                                      *)
(***************************************************************************)
\* train.py --min-bit / --max-bit / --freq defaults
DefaultMinBit == 1
DefaultMaxBit == 8
DefaultFreq == 300
\* final_action_wall / maximum_fps: freq is in MHz, fps = freq * 10**6 / cycles
MHz == 1000000

\* the call_module nodes of a graph: "act" is a class of quantizable_acts;
\* "layer" is nn.Linear or nn.Conv2d, the classes of quantizable_layers whose
\* feature row build_state_embedding can build; "unmeasured" is a class of
\* quantizable_layers whose row it cannot build: measure_layer sets no flops on
\* nn.Conv1d and nn.MultiheadAttention, and the type test of line 214 reads
\* nn.ConvTranpose1d, a name torch.nn does not have, for nn.ConvTranspose1d
\* and nn.ConvTranspose2d; "other" is any other module
NodeKinds == {"act", "layer", "unmeasured", "other"}

\* the value None / an absent result
None == <<>>

At(seq, i) == seq[i + 1]

RECURSIVE SeqsUpTo(_, _)
SeqsUpTo(S, n) ==
    IF n = 0 THEN {<<>>}
    ELSE LET shorter == SeqsUpTo(S, n - 1)
         IN  shorter \cup {Append(s, x) : s \in {t \in shorter : Len(t) = n - 1}, x \in S}

\* the graphs (sequences of call_module kinds) an environment is built for
Networks == SeqsUpTo(NodeKinds, MaxNodes)

\* the network of the end-to-end scenarios: two activations, one compute layer
ScenarioGraph == <<"act", "act", "layer">>

\* (min_bit, max_bit) pairs of the general configurations
BitRanges == {<<1, 2>>, <<2, 3>>}

\* configured target_fps: only the best cycle count (1) reaches it
TargetVals == {200000000}

\* the classes the name Quantizer of ModelEnv.py may be bound to: the class of
\* train/quantizer/Quantizer.py, whose __init__ takes twelve positional
\* arguments after self, and a class with the same methods whose __init__
\* takes the three bit-width defaults ModelEnv hands it
QuantizerClasses == {"Quantizer.py", "bit_widths"}

\* the raw actions k / ActDen of [-1, 1]
RawActions == {<<k, ActDen>> : k \in (-ActDen)..ActDen}

\* the general configurations, whose agent may emit any raw action, on every
\* enumerated graph and on the network of the scenarios, and the configuration
\* of the end-to-end scenarios, whose agent always emits 1.0
Configs ==
    {[graph |-> g, min_bit |-> b[1], max_bit |-> b[2], target |-> t, testing |-> m,
      policy |-> RawActions, quantizer |-> q] :
        g \in Networks \cup {ScenarioGraph}, b \in BitRanges, t \in TargetVals,
        m \in BOOLEAN, q \in QuantizerClasses}
    \cup
    {[graph |-> ScenarioGraph, min_bit |-> DefaultMinBit, max_bit |-> DefaultMaxBit,
      target |-> t, testing |-> TRUE, policy |-> {<<1, 1>>}, quantizer |-> q] :
        t \in TargetVals, q \in QuantizerClasses}

(***************************************************************************)
(* Layer catalog: build_state_embedding.                                   *)
(***************************************************************************)
RECURSIVE PositionsOf(_, _, _)
\* the 0-based positions i >= from of the nodes of kind k, in graph order
PositionsOf(g, k, from) ==
    IF from >= Len(g) THEN <<>>
    ELSE (IF At(g, from) = k THEN <<from>> ELSE <<>>) \o PositionsOf(g, k, from + 1)

RECURSIVE LayerPositions(_, _)
\* the 0-based positions i >= from the loop over the compute layers appends:
\* those of the modules of quantizable_layers, in graph order, up to the first
\* whose feature row raises, that one included
LayerPositions(g, from) ==
    IF from >= Len(g) THEN <<>>
    ELSE IF At(g, from) = "unmeasured" THEN <<from>>
    ELSE (IF At(g, from) = "layer" THEN <<from>> ELSE <<>>) \o LayerPositions(g, from + 1)

\* compute layers first
QuantizableIdx_layersfirst(g) == LayerPositions(g, 0) \o PositionsOf(g, "act", 0)

\* quantizable_idx: activations first, then compute layers
QuantizableIdx(g) == PositionsOf(g, "act", 0) \o LayerPositions(g, 0)

NumQuantActs(g) == Len(PositionsOf(g, "act", 0))

\* no widening for activations
ActBound_plain(minb, maxb) == <<minb, maxb>>

\* bounds of an activation entry: at least 2 bits when min_bit is 1
ActBound(minb, maxb) == IF minb = 1 THEN <<minb + 1, maxb>> ELSE <<minb, maxb>>

LayerBound(minb, maxb) == <<minb, maxb>>

BoundList(g, minb, maxb) ==
    [i \in 1..Len(QuantizableIdx(g)) |->
        IF i <= NumQuantActs(g) THEN ActBound(minb, maxb) ELSE LayerBound(minb, maxb)]

\* the exception build_state_embedding raises.  In the loop over the compute
\* layers: module.flops of a module measure_layer left without flops, or
\* nn.ConvTranpose1d.  After the loops: with no row, layer_embedding is a
\* one-dimensional empty array and layer_embedding.shape[1] does not exist
BuildError(g) ==
    IF \E p \in 1..Len(g) : g[p] = "unmeasured" THEN "AttributeError"
    ELSE IF Len(QuantizableIdx(g)) = 0 THEN "IndexError"
    ELSE "none"

\* min(layer_embedding[:, c]) and max(layer_embedding[:, c])
ColMin(emb, c) ==
    CHOOSE m \in {emb[r][c] : r \in 1..Len(emb)} : \A r \in 1..Len(emb) : m <= emb[r][c]

ColMax(emb, c) ==
    CHOOSE m \in {emb[r][c] : r \in 1..Len(emb)} : \A r \in 1..Len(emb) : emb[r][c] <= m

\* the division made whatever fmax - fmin is
Scale_always(x, fmin, fmax) == <<x - fmin, fmax - fmin>>

\* if fmax - fmin > 0: (x - fmin) / (fmax - fmin), else x as it is; the result
\* is a fraction <<n, d>>
Scale(x, fmin, fmax) == IF fmax - fmin > 0 THEN <<x - fmin, fmax - fmin>> ELSE <<x, 1>>

\* the loop over the columns of layer_embedding that normalizes it
Normalize(emb) ==
    [r \in 1..Len(emb) |->
        [c \in 1..Len(emb[1]) |-> Scale(emb[r][c], ColMin(emb, c), ColMax(emb, c))]]

\* last feature column of layer_embedding, as numerators over max_bit: every
\* row holds 1.0, the column is constant and is left unscaled;
\* self.layer_embedding is assigned after the loops, and holds no row when a
\* loop raised
LastColumn(g, maxb) ==
    IF BuildError(g) = "AttributeError" THEN <<>>
    ELSE [i \in 1..Len(QuantizableIdx(g)) |-> maxb]

(***************************************************************************)
(* Action mapper: get_action.                                              *)
(***************************************************************************)
\* ceil(n / d) for d > 0
Ceil(n, d) == -((-n) \div d)

\* + 0.5 in place of - 0.5
GetAction_plus(a, lbound, rbound) ==
    Ceil((a[1] + a[2]) * (rbound - lbound) + 2 * a[2] * lbound + a[2], 2 * a[2])

\* np.ceil((action + 1) * (rbound - lbound) / 2.0 + lbound - 0.5) for the raw
\* action a[1] / a[2]
GetAction(a, lbound, rbound) ==
    Ceil((a[1] + a[2]) * (rbound - lbound) + 2 * a[2] * lbound - a[2], 2 * a[2])

(***************************************************************************)
(* Frame rates.                                                            *)
(***************************************************************************)
Geq(x, y) == x[1] * y[2] >= y[1] * x[2]

Less(x, y) == x[1] * y[2] < y[1] * x[2]

\* n / cycles on a Python float and a Python int: ZeroDivisionError on cycles = 0
Divide(n, cycles) ==
    IF cycles = 0 THEN [err |-> "ZeroDivisionError", val |-> None]
    ELSE [err |-> "none", val |-> IF cycles > 0 THEN <<n, cycles>> ELSE <<-n, -cycles>>]

\* the comparison the wrong way round: the target is raised
ClampTarget_raise(fps, target) == IF Less(target, fps) THEN fps ELSE target

\* if fps < self.args.target_fps: self.args.target_fps = fps
ClampTarget(fps, target) == IF Less(fps, target) THEN fps ELSE target

(***************************************************************************)
(* Reward.  Weights and rewards are in hundredths: 35 stands for 0.35 and  *)
(* a reward <<n, d>> for n / (100 * d).  A resource is "BRAM_18K", "LUT"    *)
(* or "DSP"; total and avail are records over these three.                 *)
(***************************************************************************)
Resources == {"BRAM_18K", "LUT", "DSP"}

\* resources_total[r] / available_resources[r]
Util(total, avail, r) == <<total[r], avail[r]>>

\* > in place of >=
UtilGeq_strict(x, y) == x[1] * y[2] > y[1] * x[2]

\* x >= y on two utilization ratios
UtilGeq(x, y) == x[1] * y[2] >= y[1] * x[2]

\* the second and third resource share 0.25
Weights_dup(bram_util, lut_util, dsp_util) ==
    IF UtilGeq(bram_util, lut_util) /\ UtilGeq(bram_util, dsp_util)
    THEN [BRAM_18K |-> 35, LUT |-> 25, DSP |-> 25]
    ELSE IF UtilGeq(lut_util, bram_util) /\ UtilGeq(lut_util, dsp_util)
    THEN [LUT |-> 35, BRAM_18K |-> 25, DSP |-> 25]
    ELSE [DSP |-> 35, BRAM_18K |-> 25, LUT |-> 25]

\* the if / elif / else ladder of reward that sets weight_BRAM, weight_LUT and
\* weight_DSP
Weights(bram_util, lut_util, dsp_util) ==
    IF UtilGeq(bram_util, lut_util) /\ UtilGeq(bram_util, dsp_util)
    THEN IF UtilGeq(lut_util, dsp_util)
         THEN [BRAM_18K |-> 35, LUT |-> 25, DSP |-> 15]
         ELSE [BRAM_18K |-> 35, LUT |-> 15, DSP |-> 25]
    ELSE IF UtilGeq(lut_util, bram_util) /\ UtilGeq(lut_util, dsp_util)
    THEN IF UtilGeq(bram_util, dsp_util)
         THEN [LUT |-> 35, BRAM_18K |-> 25, DSP |-> 15]
         ELSE [LUT |-> 35, BRAM_18K |-> 15, DSP |-> 25]
    ELSE IF UtilGeq(bram_util, lut_util)
         THEN [DSP |-> 35, BRAM_18K |-> 25, LUT |-> 15]
         ELSE [DSP |-> 35, BRAM_18K |-> 15, LUT |-> 25]

\* 0.0 for an unused resource
Term_unused0(used, avail) ==
    IF used # 0 THEN <<2 * (-used + avail) - avail, avail>> ELSE <<0, 1>>

\* the term clamped at -1
Term_clamped(used, avail) ==
    IF used # 0
    THEN IF used > avail THEN <<-1, 1>> ELSE <<2 * (-used + avail) - avail, avail>>
    ELSE <<1, 1>>

\* (2 * (-used + avail)) / avail - 1 if used != 0, else 1.0
Term(used, avail) ==
    IF used # 0 THEN <<2 * (-used + avail) - avail, avail>> ELSE <<1, 1>>

\* x + y on two fractions
FracAdd(x, y) == <<x[1] * y[2] + y[1] * x[2], x[2] * y[2]>>

RECURSIVE Gcd(_, _)
Gcd(a, b) == IF b = 0 THEN a ELSE Gcd(b, a % b)

\* the fraction x in lowest terms: one value of the program, one value here
Lowest(x) ==
    LET g == Gcd(x[2], IF x[1] < 0 THEN -x[1] ELSE x[1])
    IN  <<x[1] \div g, x[2] \div g>>

\* acc_weight 0.5 in place of 0.25
RewardSum_acc50(acc, w, t) ==
    FracAdd(FracAdd(FracAdd(<<50 * (2 * acc - 100), 100>>,
                            <<w["BRAM_18K"] * t["BRAM_18K"][1], t["BRAM_18K"][2]>>),
                    <<w["LUT"] * t["LUT"][1], t["LUT"][2]>>),
            <<w["DSP"] * t["DSP"][1], t["DSP"][2]>>)

\* acc_weight * acc_weighted + weight_BRAM * resources_BRAM
\*   + weight_LUT * resources_LUT + weight_DSP * resources_DSP,
\* with acc_weighted = acc * 0.02 - 1.0 and acc_weight = 0.25
RewardSum(acc, w, t) ==
    FracAdd(FracAdd(FracAdd(<<25 * (2 * acc - 100), 100>>,
                            <<w["BRAM_18K"] * t["BRAM_18K"][1], t["BRAM_18K"][2]>>),
                    <<w["LUT"] * t["LUT"][1], t["LUT"][2]>>),
            <<w["DSP"] * t["DSP"][1], t["DSP"][2]>>)

\* reward(acc, avg_util, max_util, available_resources, resources_total): the
\* weights, the three terms and the value returned; a resource of which none is
\* available makes the first division raise
Reward(acc, avail, total) ==
    IF \E r \in Resources : avail[r] = 0
    THEN [err |-> "ZeroDivisionError", weights |-> None, terms |-> None, reward |-> None]
    ELSE LET w == Weights(Util(total, avail, "BRAM_18K"), Util(total, avail, "LUT"),
                          Util(total, avail, "DSP"))
             t == [r \in Resources |-> Term(total[r], avail[r])]
         IN  [err |-> "none", weights |-> w, terms |-> t, reward |-> RewardSum(acc, w, t)]

(***************************************************************************)
(* Cost evaluator: folding (train/exporter/utils.py) and set_folding.      *)
(***************************************************************************)
\* the available_resources and resources_total a feasible folding may report:
\* a design within the budget of the board and a design over it
ResourceReports ==
    {[avail |-> [BRAM_18K |-> 8, LUT |-> 7, DSP |-> 8],
      total |-> [BRAM_18K |-> 1, LUT |-> 1, DSP |-> 1]],
     [avail |-> [BRAM_18K |-> 8, LUT |-> 7, DSP |-> 8],
      total |-> [BRAM_18K |-> 16, LUT |-> 14, DSP |-> 16]]}

\* what folding may do for a model: raise, or report feasible or not and the
\* cycle count
FoldingOutcomes ==
    {[err |-> "EvaluatorError", feasible |-> FALSE, max_cycles |-> 0]}
    \cup {[err |-> "none", feasible |-> FALSE, max_cycles |-> 0]}
    \cup {[err |-> "none", feasible |-> TRUE, max_cycles |-> c] : c \in 0..MaxCycles}

\* set_folding: an exception of folding passes through; otherwise the tuple
\* returned has 4 values when folding is infeasible (cycles -1) and 7 values
\* when it is feasible; snap stands for (avg_util, max_util,
\* available_resources, resources_total) of this evaluation: the strategy
\* evaluated, the number of the call, the cycles and, in res, the available and
\* the used units of each resource
SetFolding(out, snap) ==
    IF out.err # "none"
    THEN [err |-> out.err, len |-> 0, cycles |-> 0, snap |-> None]
    ELSE IF ~out.feasible
    THEN [err |-> "none", len |-> 4, cycles |-> -1, snap |-> None]
    ELSE [err |-> "none", len |-> 7, cycles |-> out.max_cycles, snap |-> snap]

(***************************************************************************)
(* Quantizer: quantize_model (train/quantizer/Quantizer.py) on the graph   *)
(* of a model.  A model is [nodes, quantized, bits]: its graph nodes after  *)
(* the input placeholder, in graph order, each one [kind, bits]; whether    *)
(* quantize_model has been applied to it; and the bit-widths its            *)
(* quantizable modules carry, in catalog order (None for the float model). *)
(* The networks are chains of call_module nodes: every node has the node    *)
(* before it as its only input and the node after it, or the output node,   *)
(* as its only user, and there is no add and no cat node, so that           *)
(* add_output_quant_handler and residual_handler leave the graph alone.     *)
(* Kinds that quantize_model adds to NodeKinds: "qact" is the QuantReLU or  *)
(* QuantSigmoid put for an activation, "qlayer" the Quant class put for a   *)
(* compute layer, "quant" the call of a QuantIdentity.  A node of kind      *)
(* "other" is a module of no list that has no act_quant and is not          *)
(* precision preserving (nn.BatchNorm2d, nn.AvgPool2d).                     *)
(***************************************************************************)
\* a graph node: its kind and the bit-width the strategy gave its module, 0
\* when it gave none
Node(k, b) == [kind |-> k, bits |-> b]

\* the classes of Quantizer.quantizable_acts
ActKinds == {"act", "qact"}

\* the classes of Quantizer.quantizable_layers
LayerKinds == {"layer", "unmeasured", "qlayer"}

\* the modules that have an act_quant attribute
ActQuantKinds == {"qact", "quant"}

RECURSIVE PositionsIn(_, _, _)
\* the 0-based positions i >= from of the nodes whose kind is in kinds
PositionsIn(nodes, kinds, from) ==
    IF from >= Len(nodes) THEN <<>>
    ELSE (IF At(nodes, from).kind \in kinds THEN <<from>> ELSE <<>>)
         \o PositionsIn(nodes, kinds, from + 1)

\* nodes with n inserted so that it is the node of 0-based position p
InsertAt(nodes, p, n) == SubSeq(nodes, 1, p) \o <<n>> \o SubSeq(nodes, p + 1, Len(nodes))

\* quantize_input: inp_placeholder_handler inserts the call of a QuantIdentity
\* right after the input placeholder, before every other node
QuantizeInput(nodes) == <<Node("quant", 0)>> \o nodes

\* update_index: writes the positions of the activations, then of the compute
\* layers, into the list it was given, slot by slot; a module found when no
\* slot is left raises IndexError
UpdateIndex(nodes, idx_list) ==
    LET found == PositionsIn(nodes, ActKinds, 0) \o PositionsIn(nodes, LayerKinds, 0)
    IN  [err |-> IF Len(found) > Len(idx_list) THEN "IndexError" ELSE "none",
         idx |-> [i \in 1..Len(idx_list) |->
                     IF i <= Len(found) THEN found[i] ELSE idx_list[i]]]

\* quantize_act: the node of position act_idx is replaced when its module is
\* of a float class of quant_act_map; otherwise rewriter is never bound and
\* rewriter.apply raises UnboundLocalError
QuantizeAct(nodes, act_idx, b) ==
    IF act_idx < Len(nodes) /\ At(nodes, act_idx).kind = "act"
    THEN [err |-> "none", nodes |-> [nodes EXCEPT ![act_idx + 1] = Node("qact", b)]]
    ELSE [err |-> "UnboundLocalError", nodes |-> nodes]

\* quantize_layer on the node of position layer_idx.  A module that is no
\* instance of a class of compute_layer_map is passed over.  QuantLinear and
\* QuantConv2d are subclasses of nn.Linear and nn.Conv2d but no keys of the
\* map: layer_map[type(module)] raises KeyError.  For a float layer,
\* output_quant_handler inserts a QuantIdentity after the node unless its user
\* has an act_quant, a QuantIdentity is inserted before it unless
\* are_inputs_quantized_and_aligned, that is unless its input has an act_quant,
\* and the module is replaced.
QuantizeLayer(nodes, layer_idx, b) ==
    IF layer_idx >= Len(nodes) \/ At(nodes, layer_idx).kind \notin LayerKinds
    THEN [err |-> "none", nodes |-> nodes]
    ELSE IF At(nodes, layer_idx).kind = "qlayer"
    THEN [err |-> "KeyError", nodes |-> nodes]
    ELSE LET out_quant == \/ layer_idx + 1 >= Len(nodes)
                          \/ At(nodes, layer_idx + 1).kind \notin ActQuantKinds
             inp_quant == \/ layer_idx = 0
                          \/ At(nodes, layer_idx - 1).kind \notin ActQuantKinds
             replaced == [nodes EXCEPT ![layer_idx + 1] = Node("qlayer", b)]
             with_out == IF out_quant
                         THEN InsertAt(replaced, layer_idx + 1, Node("quant", 0))
                         ELSE replaced
         IN  [err |-> "none",
              nodes |-> IF inp_quant THEN InsertAt(with_out, layer_idx, Node("quant", 0))
                        ELSE with_out]

\* the value of a one-element set; a value bound to a name through such a set
\* is computed once
The(S) == CHOOSE x \in S : TRUE

RECURSIVE QuantizeActs(_, _, _, _, _)
\* for i in range(num_quant_acts): quantize_act(model, quantizable_idx[i],
\* int(strategy[i])), from i on
QuantizeActs(nodes, idx_list, strat, i, num_acts) ==
    IF i >= num_acts THEN [err |-> "none", nodes |-> nodes]
    ELSE IF i >= Len(idx_list) \/ i >= Len(strat)
    THEN [err |-> "IndexError", nodes |-> nodes]
    ELSE The({IF r.err # "none" THEN r
              ELSE QuantizeActs(r.nodes, idx_list, strat, i + 1, num_acts) :
                 r \in {QuantizeAct(nodes, At(idx_list, i), At(strat, i))}})

RECURSIVE QuantizeLayers(_, _, _, _)
\* for i in range(num_quant_acts, len(quantizable_idx)): quantize_layer(model,
\* quantizable_idx[i], int(strategy[i])), from i on: the positions are those
\* update_index wrote before the loop
QuantizeLayers(nodes, idx_list, strat, i) ==
    IF i >= Len(idx_list) THEN [err |-> "none", nodes |-> nodes]
    ELSE IF i >= Len(strat) THEN [err |-> "IndexError", nodes |-> nodes]
    ELSE The({IF r.err # "none" THEN r
              ELSE QuantizeLayers(r.nodes, idx_list, strat, i + 1) :
                 r \in {QuantizeLayer(nodes, At(idx_list, i), At(strat, i))}})

\* the bit-widths the quantizable modules carry: the activations in graph
\* order, then the compute layers in graph order, 0 for a module left float
AppliedBits(nodes) ==
    LET found == PositionsIn(nodes, ActKinds, 0) \o PositionsIn(nodes, LayerKinds, 0)
    IN  [i \in 1..Len(found) |-> At(nodes, found[i]).bits]

\* the float model of the network g
FloatModel(g) ==
    [nodes |-> [i \in 1..Len(g) |-> Node(g[i], 0)], quantized |-> FALSE, bits |-> None]

\* quantize_model on model m with the bit-widths strat: the list
\* quantizable_idx is left holding, the model as it leaves it, rewritten in
\* place, and the exception raised
QuantizeModel(m, strat, idx_list, num_acts) ==
    The({The({The({The({The({
        [idx |-> second.idx,
         model |-> [nodes |-> layers.nodes, quantized |-> TRUE,
                    bits |-> AppliedBits(layers.nodes)],
         err |-> layers.err] :
        \* the loop over the compute layers
        layers \in {IF second.err # "none"
                    THEN [err |-> second.err, nodes |-> acts.nodes]
                    ELSE QuantizeLayers(acts.nodes, second.idx, strat, num_acts)}}) :
        \* quantize_output and handle_residuals change nothing; update_index
        second \in {IF acts.err # "none" THEN [err |-> acts.err, idx |-> first.idx]
                    ELSE UpdateIndex(acts.nodes, first.idx)}}) :
        \* the loop over the activations
        acts \in {IF first.err # "none" THEN [err |-> first.err, nodes |-> inp]
                  ELSE QuantizeActs(inp, first.idx, strat, 0, num_acts)}}) :
        \* update_index
        first \in {UpdateIndex(inp, idx_list)}}) :
        \* quantize_input
        inp \in {QuantizeInput(m.nodes)}})

(***************************************************************************)
(* Feasibility repair: the index chosen for the decrement.                 *)
(***************************************************************************)
\* (key, index) order used by np.lexsort((arange(n), keys)): keys first,
\* then positions
LexLess(keys, i, j) ==
    \/ At(keys, i) < At(keys, j)
    \/ At(keys, i) = At(keys, j) /\ i < j

\* np.lexsort((np.arange(n), keys)): the 0-based indices in ascending order
LexSort(keys) ==
    LET n == Len(keys)
        rank(i) == Cardinality({j \in 0..(n - 1) : LexLess(keys, j, i)})
    IN  [r \in 1..n |-> CHOOSE i \in 0..(n - 1) : rank(i) = r - 1]

\* seq[::-1]
Reversed(seq) == [r \in 1..Len(seq) |-> seq[Len(seq) + 1 - r]]

\* first index holding the maximum (np.argmax)
ReduceIndex_first(strat) ==
    CHOOSE i \in 0..(Len(strat) - 1) :
        /\ \A j \in 0..(Len(strat) - 1) : At(strat, j) <= At(strat, i)
        /\ \A j \in 0..(i - 1) : At(strat, j) < At(strat, i)

\* np.lexsort((np.arange(len(strategy)), strategy))[::-1][0]
ReduceIndex(strat) == At(Reversed(LexSort(strat)), 0)

\* bit > min_bit only
TryReduce_nobound(strat, idx, minb, bounds) ==
    LET bit == At(strat, idx)
    IN  IF ~(bit > minb) THEN [err |-> "none", reduced |-> FALSE]
        ELSE [err |-> "none", reduced |-> TRUE]

\* giving up raises
TryReduce_raise(strat, idx, minb, bounds) ==
    LET bit == At(strat, idx)
    IN  IF ~(bit > minb) THEN [err |-> "InfeasibleStrategy", reduced |-> FALSE]
        ELSE IF idx >= Len(bounds) THEN [err |-> "IndexError", reduced |-> FALSE]
        ELSE IF bit > At(bounds, idx)[1] THEN [err |-> "none", reduced |-> TRUE]
        ELSE [err |-> "InfeasibleStrategy", reduced |-> FALSE]

\* bit > self.min_bit and bit > self.bound_list[idx][0]; the second operand is
\* evaluated only when the first holds, and indexes bound_list
TryReduce(strat, idx, minb, bounds) ==
    LET bit == At(strat, idx)
    IN  IF ~(bit > minb) THEN [err |-> "none", reduced |-> FALSE]
        ELSE IF idx >= Len(bounds) THEN [err |-> "IndexError", reduced |-> FALSE]
        ELSE [err |-> "none", reduced |-> bit > At(bounds, idx)[1]]

\* self.strategy[idx] -= 1
Decrement(strat, idx) == [strat EXCEPT ![idx + 1] = @ - 1]

\* break whatever reduced is
LoopContinues_never(reduced) == FALSE

\* if not reduced: break
LoopContinues(reduced) == reduced

(***************************************************************************)
(* State of one environment instance.                                      *)
(***************************************************************************)
VARIABLES
    graph,            \* orig_model: the call_module kinds of the network, in graph order
    testing,          \* constructed in evaluation mode
    min_bit,
    max_bit,
    target0,          \* target_fps as configured on the command line
    policy,           \* the raw actions the agent may emit
    quantizer,        \* the class the name Quantizer is bound to
    target_fps,       \* args.target_fps, a frame rate <<n, d>>
    quantizable_idx,
    num_quant_acts,
    bound_list,
    emb_last,         \* layer_embedding[:, -1], numerators over max_bit
    cur_ind,
    strategy,
    last_action,
    best_reward,      \* a fraction <<n, d>>; MinusInf until a reward is recorded
    model,            \* self.model: [nodes, quantized, bits]
    wall_ret,         \* the tuple final_action_wall returned to step: [fps, snap]
    cur_acc,          \* self.cur_acc, in percent: 0 until validate has returned
    step_reward,      \* the local reward of a terminal step, None outside it
    pc,               \* "probe", "await", "wall", then the statements of a terminal
                      \* step that follow final_action_wall: "quantize",
                      \* "calibrate", "finetune", "validate", "reward", "return";
                      \* "terminal" once it has returned, "halted"
    error,            \* the exception that stopped the process, or "none"
    ret,              \* what the last completed reset / step call returned
    info_strategy,    \* "self.strategy" when the list under 'strategy' in the info of
                      \* the last done = True return is the list self.strategy names,
                      \* "none" when there is no such info or self.strategy names
                      \* another list
    probe,            \* maximum_fps: [ran, cycles, fps, of, calls], its locals cycles,
                      \* fps and strategy (of) and the evaluator calls it made
    strategy0,        \* the strategy final_action_wall was entered with
    decs,             \* decrements made by the current final_action_wall call
    evals,            \* cost evaluations made by the current final_action_wall call
    caller,           \* the method that called final_action_wall: "step", "step_",
                      \* or "none" when it has not been called in this episode
    peer,             \* a training environment has been constructed on the args
                      \* object of this environment
    fn_in,            \* arguments of a pure-function evaluation
    fn_out,           \* its result
    files,            \* the export files of the working directories: path -> content
    inst,             \* the environment instances that share the file system:
                      \* [wd, pc, iter, read] each
    serial            \* the caller runs one export-and-evaluate pipeline at a time

vars == <<graph, testing, min_bit, max_bit, target0, policy, quantizer, target_fps,
          quantizable_idx, num_quant_acts, bound_list, emb_last, cur_ind, strategy,
          last_action, best_reward, model, wall_ret, cur_acc, step_reward, pc, error,
          ret, info_strategy, probe, strategy0, decs, evals, caller, peer, fn_in, fn_out, files, inst, serial>>

config_vars == <<graph, testing, min_bit, max_bit, target0, policy, quantizer>>

term_vars == <<cur_acc, step_reward>>

catalog_vars == <<quantizable_idx, num_quant_acts, bound_list>>

wall_vars == <<strategy0, decs, evals, caller>>

fn_vars == <<fn_in, fn_out>>

fs_vars == <<files, inst, serial>>

Freq == DefaultFreq * MHz

\* no call has returned yet, or a step call is running
NoRet == [call |-> "none", done |-> FALSE, reward |-> <<0, 1>>, obs_last |-> 0,
          acc |-> 0, fps |-> None, scored |-> None]

\* -math.inf: below every reward under Less
MinusInf == <<-1, 0>>

\* maximum_fps has not run
NoProbe == [ran |-> FALSE, cycles |-> 0, fps |-> None, of |-> None, calls |-> 0]

\* Quantizer(args.weight_bit_width, args.act_bit_width, args.residual_bit_width),
\* the call of __init__ and of reset, answered by the class cls: the class of
\* train/quantizer/Quantizer.py lacks nine positional arguments and raises
\* TypeError, at every call; the class that takes three constructs
NewQuantizer(cls) == IF cls = "Quantizer.py" THEN "TypeError" ELSE "none"

\* ModelEnv.__init__ up to the call of maximum_fps
InitWith(c) ==
    /\ graph = c.graph
    /\ testing = c.testing
    /\ min_bit = c.min_bit
    /\ max_bit = c.max_bit
    /\ target0 = c.target
    /\ policy = c.policy
    /\ quantizer = c.quantizer
    /\ target_fps = <<c.target, 1>>
    /\ quantizable_idx = QuantizableIdx(c.graph)
    /\ num_quant_acts = NumQuantActs(c.graph)
    /\ bound_list = BoundList(c.graph, c.min_bit, c.max_bit)
    /\ emb_last = LastColumn(c.graph, c.max_bit)
    /\ cur_ind = 0
    /\ strategy = <<>>
    /\ last_action = c.max_bit
    /\ best_reward = MinusInf
    /\ model = FloatModel(c.graph)
    /\ wall_ret = None
    /\ cur_acc = 0
    /\ step_reward = None
    \* an exception of build_state_embedding, or of the Quantizer call that
    \* follows it, ends the construction
    /\ LET q == NewQuantizer(c.quantizer)
       IN  /\ pc = IF BuildError(c.graph) # "none" \/ q # "none" THEN "halted"
                   ELSE IF c.testing THEN "await" ELSE "probe"
           /\ error = IF BuildError(c.graph) # "none" THEN BuildError(c.graph) ELSE q
    /\ ret = NoRet
    /\ info_strategy = "none"
    /\ probe = NoProbe
    /\ strategy0 = <<>>
    /\ decs = 0
    /\ evals = 0
    /\ caller = "none"
    /\ peer = FALSE

\* one environment on its own: what it exports in an iteration it loads in the
\* same iteration, and nothing else reads or writes the file
NoSharing ==
    /\ files = None
    /\ inst = None
    /\ serial = TRUE

Init ==
    /\ \E c \in Configs : InitWith(c)
    /\ fn_in = None
    /\ fn_out = None
    /\ NoSharing

\* off by one: the last two layers count as final
IsFinalLayer_early == cur_ind >= Len(quantizable_idx) - 2

IsFinalLayer == cur_ind = Len(quantizable_idx) - 1

\* the cursor is not advanced
NextCursor_stay(c) == c

\* self.cur_ind += 1
NextCursor(c) == c + 1

\* info = {..., 'strategy' : self.strategy}: the list itself, not a copy
Reported == "self.strategy"

(***************************************************************************)
(* Baseline probe: maximum_fps, the last statement of __init__.            *)
(***************************************************************************)
\* every entry at min_bit
LowestStrategy_minbit(idx_list, bounds) == [i \in 1..Len(idx_list) |-> min_bit]

\* strategy = [self.bound_list[i][0] for i in range(len(self.quantizable_idx))]
LowestStrategy(idx_list, bounds) == [i \in 1..Len(idx_list) |-> bounds[i][1]]

\* maximum_fps after the export of the model quantized with the strategy
\* lowest: the exception it ends with, its locals cycles and fps, and the value
\* it leaves in args.target_fps
ProbeOutcome(out, lowest, target) ==
    LET r == SetFolding(out, [of |-> lowest, call |-> 1, cycles |-> out.max_cycles,
                              res |-> None])
        q == Divide(Freq, r.cycles)
        stop(e) == [err |-> e, cycles |-> r.cycles, fps |-> None, target |-> target]
    IN  IF r.err # "none" THEN stop(r.err)
        \* model, cycles, _, _, _, _, _ = <4 values>
        ELSE IF r.len # 7 THEN stop("ValueError")
        ELSE IF r.cycles < 0 THEN stop("SystemExit")
        ELSE IF q.err # "none" THEN stop(q.err)
        ELSE [err |-> "none", cycles |-> r.cycles, fps |-> q.val,
              target |-> ClampTarget(q.val, target)]

\* maximum_fps of this environment; args is the object handed to the
\* constructor, which the caller may hand to other environments too.
\* quantize_model runs on a copy of self.model and is handed
\* self.quantizable_idx; an exception it raises ends the constructor before
\* the evaluation
MaximumFps ==
    /\ pc = "probe"
    /\ LET lowest == LowestStrategy(quantizable_idx, bound_list)
           qm == QuantizeModel(model, lowest, quantizable_idx, num_quant_acts)
       IN  /\ quantizable_idx' = qm.idx
           /\ IF qm.err # "none"
              THEN /\ pc' = "halted"
                   /\ error' = qm.err
                   /\ probe' = [ran |-> TRUE, cycles |-> 0, fps |-> None, of |-> lowest,
                                calls |-> 0]
                   /\ UNCHANGED target_fps
              ELSE \E out \in FoldingOutcomes :
                     LET o == ProbeOutcome(out, lowest, target_fps)
                     IN  /\ pc' = IF o.err # "none" THEN "halted" ELSE "await"
                         /\ error' = o.err
                         /\ probe' = [ran |-> TRUE, cycles |-> o.cycles, fps |-> o.fps,
                                      of |-> lowest, calls |-> 1]
                         /\ target_fps' = o.target
    /\ UNCHANGED <<config_vars, peer, term_vars, num_quant_acts, bound_list, emb_last, cur_ind,
                   strategy, last_action, best_reward, model, wall_ret, ret, info_strategy,
                   wall_vars, fn_vars, fs_vars>>

\* train.py, main: eval_env = ModelEnv(args, ..., testing = True) and then
\* ModelEnv(args, ..., testing = False) on the same args object.  Seen from the
\* evaluation environment, which no call has reached yet: the constructor of
\* the training environment runs, with the same network and the same Quantizer
\* class; its quantize_model or its evaluation may end the process, and its
\* maximum_fps writes args.target_fps.  The catalog and the model it works on
\* are its own.
PeerMaximumFps ==
    /\ testing /\ ~peer
    /\ pc = "await" /\ ret = NoRet /\ strategy = <<>>
    /\ peer' = TRUE
    /\ LET q == NewQuantizer(quantizer)
           lowest == LowestStrategy(QuantizableIdx(graph), bound_list)
           qm == QuantizeModel(FloatModel(graph), lowest, QuantizableIdx(graph),
                               NumQuantActs(graph))
       IN  IF q # "none" \/ qm.err # "none"
           THEN /\ pc' = "halted"
                /\ error' = IF q # "none" THEN q ELSE qm.err
                /\ UNCHANGED target_fps
           ELSE \E out \in FoldingOutcomes :
                  LET o == ProbeOutcome(out, lowest, target_fps)
                  IN  /\ pc' = IF o.err # "none" THEN "halted" ELSE "await"
                      /\ error' = o.err
                      /\ target_fps' = o.target
    /\ UNCHANGED <<config_vars, term_vars, catalog_vars, emb_last, cur_ind, strategy,
                   last_action, best_reward, model, wall_ret, ret, info_strategy, probe,
                   wall_vars, fn_vars, fs_vars>>

(***************************************************************************)
(* Episode controller: reset and step.                                     *)
(***************************************************************************)
\* reset that installs the given strategy list and last feature column
ResetEpisode(new_strategy, new_last) ==
    /\ pc \in {"await", "terminal"}
    /\ quantizable_idx' = QuantizableIdx(graph)
    /\ num_quant_acts' = NumQuantActs(graph)
    /\ bound_list' = BoundList(graph, min_bit, max_bit)
    /\ emb_last' = new_last
    /\ cur_ind' = 0
    /\ strategy' = new_strategy
    \* self.strategy = []: a new list; the reported one is left as it is
    /\ info_strategy' = "none"
    /\ model' = FloatModel(graph)
    \* the Quantizer call is the last statement before the return
    /\ IF NewQuantizer(quantizer) # "none"
       THEN /\ pc' = "halted" /\ error' = NewQuantizer(quantizer)
            /\ ret' = NoRet
       ELSE /\ pc' = "await" /\ error' = error
            /\ ret' = [call |-> "reset", done |-> FALSE, reward |-> <<0, 1>>,
                       obs_last |-> At(emb_last', 0), acc |-> 0, fps |-> None,
                       scored |-> None]
    /\ strategy0' = <<>> /\ decs' = 0 /\ evals' = 0 /\ caller' = "none"
    /\ UNCHANGED <<config_vars, peer, term_vars, target_fps, last_action, best_reward, wall_ret,
                   probe, fn_vars, fs_vars>>

\* the feature rows are left as the last episode wrote them
Reset_stale == ResetEpisode(<<>>, emb_last)

\* reset: build_state_embedding on a copy of orig_model, cur_ind = 0, strategy = []
Reset == ResetEpisode(<<>>, LastColumn(graph, max_bit))

\* step, up to the return of a non-terminal decision or the entry of
\* final_action_wall
Step ==
    /\ \/ pc = "await"
       \/ pc = "terminal" /\ Len(strategy) < MaxStrategyLen
    /\ \E k \in policy :
        LET b == At(bound_list, cur_ind)
            action == GetAction(k, b[1], b[2])
        IN  /\ last_action' = action
            /\ strategy' = Append(strategy, action)
            /\ IF IsFinalLayer
               THEN /\ pc' = "wall"
                    /\ ret' = NoRet
                    /\ strategy0' = strategy' /\ decs' = 0 /\ evals' = 0
                    /\ caller' = "step"
                    /\ UNCHANGED <<cur_ind, emb_last>>
               ELSE /\ cur_ind' = NextCursor(cur_ind)
                    /\ emb_last' = [emb_last EXCEPT ![cur_ind' + 1] = action]
                    /\ pc' = "await"
                    /\ ret' = [call |-> "step", done |-> FALSE, reward |-> <<0, 1>>,
                               obs_last |-> At(emb_last', cur_ind'), acc |-> 0,
                               fps |-> None, scored |-> None]
                    /\ UNCHANGED wall_vars
    /\ UNCHANGED <<config_vars, peer, term_vars, target_fps, catalog_vars, best_reward, model, wall_ret,
                   error, probe, info_strategy, fn_vars, fs_vars>>

\* the bit-widths handed to step_, which takes the width itself: those the
\* action mapper yields on the raw actions of the agent
StepWidths(b) == {GetAction(k, b[1], b[2]) : k \in policy}

\* step_, up to the return of a non-terminal decision or the entry of
\* final_action_wall: the width is appended as it is and no feature row is
\* written
Step_ ==
    /\ \/ pc = "await"
       \/ pc = "terminal" /\ Len(strategy) < MaxStrategyLen
    /\ \E action \in StepWidths(At(bound_list, cur_ind)) :
        /\ last_action' = action
        /\ strategy' = Append(strategy, action)
        /\ IF IsFinalLayer
           THEN /\ pc' = "wall"
                /\ ret' = NoRet
                /\ strategy0' = strategy' /\ decs' = 0 /\ evals' = 0
                /\ caller' = "step_"
                /\ UNCHANGED cur_ind
           ELSE /\ cur_ind' = NextCursor(cur_ind)
                /\ pc' = "await"
                \* return done, info: no observation and no reward
                /\ ret' = [call |-> "step_", done |-> FALSE, reward |-> None,
                           obs_last |-> None, acc |-> 0, fps |-> None, scored |-> None]
                /\ UNCHANGED wall_vars
    /\ UNCHANGED <<config_vars, peer, term_vars, target_fps, catalog_vars, emb_last, best_reward, model,
                   wall_ret, error, probe, info_strategy, fn_vars, fs_vars>>

\* a handler that swallows the exception and lets the loop go on
Raise_retry(e) == [pc |-> "wall", error |-> e]

\* an exception raised inside final_action_wall: neither the loop nor step has
\* a handler, so it leaves both and ends the process
Raise(e) == [pc |-> "halted", error |-> e]

\* one iteration of the while True loop of final_action_wall
WallIteration ==
    /\ pc = "wall"
    /\ \E qm \in {QuantizeModel(model, strategy, quantizable_idx, num_quant_acts)},
          idx \in {ReduceIndex(strategy)},
          out \in FoldingOutcomes,
          res \in ResourceReports :
        LET r == SetFolding(out, [of |-> strategy, call |-> evals + 1,
                                  cycles |-> out.max_cycles, res |-> res])
            q == Divide(Freq, r.cycles)
            t == TryReduce(strategy, idx, min_bit, bound_list)
            halt(e) == /\ pc' = Raise(e).pc /\ error' = Raise(e).error
                       /\ UNCHANGED <<strategy, wall_ret, decs>>
            return == /\ pc' = "quantize"
                      /\ wall_ret' = [fps |-> q.val, snap |-> r.snap]
                      /\ UNCHANGED error
        IN  /\ quantizable_idx' = qm.idx
            /\ evals' = IF qm.err # "none" THEN evals ELSE evals + 1
            /\ IF qm.err # "none" THEN halt(qm.err)
               ELSE IF r.err # "none" THEN halt(r.err)
               ELSE IF r.len # 7 THEN halt("ValueError")
               ELSE IF q.err # "none" THEN halt(q.err)
               ELSE IF Geq(q.val, target_fps)
               THEN return /\ UNCHANGED <<strategy, decs>>
               ELSE IF t.err # "none" THEN halt(t.err)
               ELSE /\ strategy' = IF t.reduced THEN Decrement(strategy, idx) ELSE strategy
                    /\ decs' = IF t.reduced THEN decs + 1 ELSE decs
                    /\ IF LoopContinues(t.reduced)
                       THEN pc' = "wall" /\ UNCHANGED <<wall_ret, error>>
                       ELSE return
    /\ UNCHANGED <<config_vars, peer, term_vars, target_fps, num_quant_acts, bound_list, emb_last, cur_ind,
                   last_action, best_reward, model, ret, info_strategy, probe, strategy0,
                   caller,
                   fn_vars, fs_vars>>

\* the bit-widths step hands to quantize_model after final_action_wall:
\* self.strategy, which the repair loop decrements in place
FinalStrategy == strategy

\* the variables a statement of a terminal step leaves alone when it only
\* moves on
stage_rest == <<target_fps, catalog_vars, emb_last, cur_ind, strategy, last_action,
                best_reward, wall_ret, ret, info_strategy, probe, wall_vars>>

\* self.model = self.quantizer.quantize_model(self.model, self.strategy,
\* self.quantizable_idx, self.num_quant_acts), in step (c = "step") and in
\* step_ (c = "step_"): self.model itself is rewritten
QuantizeStage(c) ==
    /\ pc = "quantize" /\ caller = c
    /\ LET qm == QuantizeModel(model, FinalStrategy, quantizable_idx, num_quant_acts)
       IN  /\ quantizable_idx' = qm.idx
           /\ model' = qm.model
           /\ pc' = IF qm.err # "none" THEN "halted" ELSE "calibrate"
           /\ error' = IF qm.err # "none" THEN qm.err ELSE error
    /\ UNCHANGED <<config_vars, peer, term_vars, target_fps, num_quant_acts, bound_list,
                   emb_last, cur_ind, strategy, last_action, best_reward, wall_ret, ret,
                   info_strategy, probe, wall_vars, fn_vars, fs_vars>>

\* finetuner.model = deepcopy(self.model); finetuner.calibrate(): the
\* calibration runs on the copy and changes no node of it
CalibrateStage(c) ==
    /\ pc = "calibrate" /\ caller = c
    /\ pc' = "finetune"
    /\ UNCHANGED <<config_vars, peer, term_vars, stage_rest, model, error, fn_vars, fs_vars>>

\* finetuner.init_finetuning_optim(); init_loss(); finetune(): training
\* changes the weights of the copy and no node of it
FinetuneStage(c) ==
    /\ pc = "finetune" /\ caller = c
    /\ pc' = "validate"
    /\ UNCHANGED <<config_vars, peer, term_vars, stage_rest, model, error, fn_vars, fs_vars>>

\* the top-1 accuracy finetuner.validate returns, in percent; how the reward
\* follows the accuracy is checked on the grid of RewardSpec
AccReports == {50}

\* self.cur_acc = finetuner.validate(); self.model = deepcopy(finetuner.model)
ValidateStage(c) ==
    /\ pc = "validate" /\ caller = c
    /\ cur_acc' \in AccReports
    /\ pc' = "reward"
    /\ UNCHANGED <<config_vars, peer, step_reward, stage_rest, model, error, fn_vars, fs_vars>>

StepQuantize == QuantizeStage("step")

StepCalibrate == CalibrateStage("step")

StepFinetune == FinetuneStage("step")

StepValidate == ValidateStage("step")

\* reward = self.reward(self.cur_acc, self.avg_util, self.max_util,
\* self.available_resources, self.resources_total), on the accuracy validated
\* and the resources final_action_wall returned; step has no handler for an
\* exception of reward
StepReward ==
    /\ pc = "reward" /\ caller = "step"
    /\ LET rw == Reward(cur_acc, wall_ret.snap.res.avail, wall_ret.snap.res.total)
       IN  IF rw.err # "none"
           THEN pc' = "halted" /\ error' = rw.err /\ UNCHANGED step_reward
           ELSE pc' = "return" /\ error' = error /\ step_reward' = Lowest(rw.reward)
    /\ UNCHANGED <<config_vars, peer, cur_acc, stage_rest, model, fn_vars, fs_vars>>

\* if reward > self.best_reward: self.best_reward = reward
BestReward(reward, best) == IF Less(best, reward) THEN reward ELSE best

\* the end of a terminal step: best_reward, the observation, and the return
\* with done = True; info reports self.cur_acc, the fps final_action_wall
\* returned and the list self.strategy
StepFinish ==
    /\ pc = "return" /\ caller = "step"
    /\ best_reward' = BestReward(step_reward, best_reward)
    /\ info_strategy' = Reported
    /\ ret' = [call |-> "step", done |-> TRUE, reward |-> step_reward,
               obs_last |-> At(emb_last, cur_ind), acc |-> cur_acc,
               fps |-> wall_ret.fps, scored |-> wall_ret.snap]
    /\ pc' = "terminal"
    /\ wall_ret' = None
    /\ step_reward' = None
    /\ UNCHANGED <<config_vars, peer, cur_acc, target_fps, catalog_vars, emb_last, cur_ind,
                   strategy, last_action, model, error, probe, wall_vars, fn_vars, fs_vars>>

Step_Quantize == QuantizeStage("step_")

Step_Calibrate == CalibrateStage("step_")

Step_Finetune == FinetuneStage("step_")

Step_Validate == ValidateStage("step_")

\* reward = self.reward(self.cur_acc, self.strategy) of step_: the call lacks
\* three of the arguments of reward and raises TypeError
Step_Reward ==
    /\ pc = "reward" /\ caller = "step_"
    /\ pc' = "halted" /\ error' = "TypeError"
    /\ UNCHANGED <<config_vars, peer, term_vars, stage_rest, model, fn_vars, fs_vars>>

Next ==
    \/ MaximumFps \/ PeerMaximumFps \/ Reset \/ Step \/ Step_ \/ WallIteration
    \/ StepQuantize \/ StepCalibrate \/ StepFinetune \/ StepValidate \/ StepReward
    \/ StepFinish
    \/ Step_Quantize \/ Step_Calibrate \/ Step_Finetune \/ Step_Validate \/ Step_Reward

Spec == Init /\ [][Next]_vars

\* the training environments whose network lists its quantizable activations
\* and then its quantizable compute layers, with no other module: the repair
\* loop reads the strategy, the bounds and the target, never the graph
\* positions, and an evaluation environment runs it as a training environment
\* whose probe left the target alone does
FairInit ==
    /\ \E c \in {d \in Configs :
                    /\ ~d.testing
                    /\ QuantizableIdx(d.graph) = [i \in 1..Len(d.graph) |-> i - 1]} :
           InitWith(c)
    /\ fn_in = None
    /\ fn_out = None
    /\ NoSharing

\* Next for a training environment that is driven through step: the probe of
\* a training environment constructed on the same args reaches an evaluation
\* environment only, and step_ enters final_action_wall as step does, on a
\* strategy of the same widths
FairNext ==
    \/ MaximumFps \/ Reset \/ Step \/ WallIteration
    \/ StepQuantize \/ StepCalibrate \/ StepFinetune \/ StepValidate \/ StepReward
    \/ StepFinish

\* an entered final_action_wall keeps iterating: nothing else runs meanwhile
FairSpec == FairInit /\ [][FairNext]_vars /\ WF_vars(WallIteration)

(***************************************************************************)
(* Evaluation of get_action on its own.                                    *)
(***************************************************************************)
\* raw actions of [-1, 1] and bound pairs with lbound <= rbound
ActionInputs ==
    {[a |-> <<k, ActGrid>>, lbound |-> l, rbound |-> r] :
        k \in (-ActGrid)..ActGrid, l \in 1..DefaultMaxBit, r \in 1..DefaultMaxBit}

\* no environment takes part: its catalog is empty and construction has failed
ActionInit ==
    /\ InitWith([graph |-> <<>>, min_bit |-> DefaultMinBit, max_bit |-> DefaultMaxBit,
                 target |-> 0, testing |-> TRUE, policy |-> {},
                 quantizer |-> "Quantizer.py"])
    /\ fn_in \in {i \in ActionInputs : i.lbound <= i.rbound}
    /\ fn_out = None
    /\ NoSharing

ApplyGetAction ==
    /\ fn_in # None
    /\ fn_out = None
    /\ fn_out' = <<GetAction(fn_in.a, fn_in.lbound, fn_in.rbound)>>
    /\ UNCHANGED <<config_vars, peer, term_vars, target_fps, catalog_vars, emb_last, cur_ind, strategy,
                   last_action, best_reward, model, wall_ret, pc, error, ret, info_strategy,
                   probe, wall_vars, fn_in, fs_vars>>

ActionSpec == ActionInit /\ [][ApplyGetAction]_vars

(***************************************************************************)
(* Evaluation of reward on its own.                                        *)
(***************************************************************************)
AccVals == {(100 * k) \div AccSteps : k \in 0..AccSteps}

\* accuracies in percent, available_resources and resources_total
RewardInputs ==
    {[acc |-> c, avail |-> a, total |-> u] :
        c \in AccVals, a \in [Resources -> 0..MaxRes], u \in [Resources -> 0..(MaxRes + 1)]}

RewardInit ==
    /\ InitWith([graph |-> <<>>, min_bit |-> DefaultMinBit, max_bit |-> DefaultMaxBit,
                 target |-> 0, testing |-> TRUE, policy |-> {},
                 quantizer |-> "Quantizer.py"])
    /\ fn_in \in RewardInputs
    /\ fn_out = None
    /\ NoSharing

ApplyReward ==
    /\ fn_in # None
    /\ fn_out = None
    /\ fn_out' = Reward(fn_in.acc, fn_in.avail, fn_in.total)
    /\ UNCHANGED <<config_vars, peer, term_vars, target_fps, catalog_vars, emb_last, cur_ind, strategy,
                   last_action, best_reward, model, wall_ret, pc, error, ret, info_strategy,
                   probe, wall_vars, fn_in, fs_vars>>

RewardSpec == RewardInit /\ [][ApplyReward]_vars

(***************************************************************************)
(* Evaluation of the normalization of build_state_embedding on its own.    *)
(***************************************************************************)
\* feature columns of the matrices enumerated; the code builds six per row and
\* its loop treats every column alike
NormCols == 2

\* layer_embedding before the loop: one row of features per catalog entry
NormInputs ==
    {m \in SeqsUpTo([1..NormCols -> 0..MaxFeature], MaxRows) : Len(m) >= 1}

NormInit ==
    /\ InitWith([graph |-> <<>>, min_bit |-> DefaultMinBit, max_bit |-> DefaultMaxBit,
                 target |-> 0, testing |-> TRUE, policy |-> {},
                 quantizer |-> "Quantizer.py"])
    /\ fn_in \in NormInputs
    /\ fn_out = None
    /\ NoSharing

ApplyNormalize ==
    /\ fn_in # None
    /\ fn_out = None
    /\ fn_out' = Normalize(fn_in)
    /\ UNCHANGED <<config_vars, peer, term_vars, target_fps, catalog_vars, emb_last, cur_ind, strategy,
                   last_action, best_reward, model, wall_ret, pc, error, ret, info_strategy,
                   probe, wall_vars, fn_in, fs_vars>>

NormSpec == NormInit /\ [][ApplyNormalize]_vars

(***************************************************************************)
(* Two environments that export and evaluate concurrently.  Each iteration *)
(* of final_action_wall, and maximum_fps, writes the quantized model with   *)
(* export_qonnx(..., export_path = 'model.onnx') and reads it back with     *)
(* ModelWrapper('model.onnx'); the two calls are separate steps of a        *)
(* process, and another process may run in between.                        *)
(***************************************************************************)
Instances == {1, 2}

Dirs == {"a", "b"}

\* an absolute path: the same file from every working directory
ExportFile_abs(wd) == "/model.onnx"

\* the file the relative path 'model.onnx' names in working directory wd
ExportFile(wd) == <<wd, "model.onnx">>

Paths == {ExportFile(d) : d \in Dirs}

ExportInit ==
    /\ InitWith([graph |-> <<>>, min_bit |-> DefaultMinBit, max_bit |-> DefaultMaxBit,
                 target |-> 0, testing |-> TRUE, policy |-> {},
                 quantizer |-> "Quantizer.py"])
    /\ fn_in = None
    /\ fn_out = None
    /\ files = [f \in Paths |-> None]
    /\ \E w \in [Instances -> Dirs] :
           inst = [i \in Instances |-> [wd |-> w[i], pc |-> "idle", iter |-> 0, read |-> None]]
    /\ serial \in BOOLEAN

\* bo.export_qonnx(model_for_measure, ref_input, export_path = 'model.onnx', ...)
\* of iteration iter + 1 of instance i
Export(i) ==
    /\ inst[i].pc = "idle"
    /\ inst[i].iter < MaxExports
    /\ serial => \A j \in Instances : inst[j].pc = "idle"
    /\ files' = [files EXCEPT ![ExportFile(inst[i].wd)] = <<i, inst[i].iter + 1>>]
    /\ inst' = [inst EXCEPT ![i].pc = "exported", ![i].iter = @ + 1]
    /\ UNCHANGED <<config_vars, peer, term_vars, target_fps, catalog_vars, emb_last, cur_ind, strategy,
                   last_action, best_reward, model, wall_ret, pc, error, ret, info_strategy,
                   probe, wall_vars, fn_in, fn_out, serial>>

\* model = ModelWrapper('model.onnx'), which the transformations and set_folding
\* then evaluate
Load(i) ==
    /\ inst[i].pc = "exported"
    /\ inst' = [inst EXCEPT ![i].pc = "idle", ![i].read = files[ExportFile(inst[i].wd)]]
    /\ UNCHANGED <<config_vars, peer, term_vars, target_fps, catalog_vars, emb_last, cur_ind, strategy,
                   last_action, best_reward, model, wall_ret, pc, error, ret, info_strategy,
                   probe, wall_vars, fn_in, fn_out, files, serial>>

ExportNext == \E i \in Instances : Export(i) \/ Load(i)

ExportSpec == ExportInit /\ [][ExportNext]_vars

(***************************************************************************)
(* Properties.                                                             *)
(***************************************************************************)
NumEntries == Len(quantizable_idx)

RECURSIVE SumSeq(_)
SumSeq(seq) == IF Len(seq) = 0 THEN 0 ELSE Head(seq) + SumSeq(Tail(seq))

\* sum over i of strat[i] - bounds[i].lower
Slack(strat, bounds) == SumSeq([i \in 1..Len(strat) |-> strat[i] - bounds[i][1]])

\* the value of reward for an accuracy and the resources of an evaluation
ScoredReward(acc, snap) == Lowest(Reward(acc, snap.res.avail, snap.res.total).reward)

InBounds(strat, bounds) ==
    /\ Len(strat) = Len(bounds)
    /\ \A i \in 1..Len(strat) : bounds[i][1] <= strat[i] /\ strat[i] <= bounds[i][2]

\* C1: for a raw action in [-1, 1] and bounds lower <= upper, get_action
\* returns a bit-width in [lower, upper]; -1 gives lower and 1 gives upper.
C1_GetActionInBounds ==
    fn_out # None =>
        /\ fn_in.lbound <= fn_out[1] /\ fn_out[1] <= fn_in.rbound
        /\ fn_in.a[1] = -fn_in.a[2] => fn_out[1] = fn_in.lbound
        /\ fn_in.a[1] = fn_in.a[2] => fn_out[1] = fn_in.rbound

C1_Witness ==
    /\ fn_out # None
    /\ fn_in.a[1] = fn_in.a[2]
    /\ fn_in.lbound < fn_in.rbound
    /\ fn_out[1] = fn_in.rbound

\* the decrements of a repair loop entered with a strategy within its bounds
\* number at most sum(strategy0[i] - bound_list[i].lower), and every iteration
\* that stays in the loop made one
RepairDecrementsBounded ==
    (pc \in {"wall", "quantize"} /\ InBounds(strategy0, bound_list)) =>
        /\ decs <= Slack(strategy0, bound_list)
        /\ evals <= decs + 1
        /\ pc = "wall" => evals = decs

\* C2: entered with a strategy within its bounds, final_action_wall is left
\* after finitely many iterations whatever the evaluator reports, and it makes
\* at most sum(strategy0[i] - bound_list[i].lower) decrements.
C2_RepairTerminates ==
    /\ []RepairDecrementsBounded
    /\ (pc = "wall") ~> (pc # "wall")

C2_Witness ==
    /\ pc = "quantize"
    /\ InBounds(strategy0, bound_list)
    /\ Slack(strategy0, bound_list) >= 2
    /\ decs = Slack(strategy0, bound_list)
    /\ ~Geq(wall_ret.fps, target_fps)

\* C3: a decrement of the repair loop lowers by exactly 1 the entry that holds
\* the maximum bit-width and, among the entries holding it, has the highest
\* index; every other entry is unchanged.
C3_DecrementTargetsLastMax ==
    [][(pc = "wall" /\ strategy' # strategy) =>
          \E i \in 1..Len(strategy) :
              /\ \A j \in 1..Len(strategy) : strategy[j] <= strategy[i]
              /\ \A j \in (i + 1)..Len(strategy) : strategy[j] < strategy[i]
              /\ strategy' = [strategy EXCEPT ![i] = strategy[i] - 1]]_vars

C3_Witness ==
    /\ pc = "wall"
    /\ decs = 1
    /\ Len(strategy0) >= 2
    /\ strategy0[1] = strategy0[Len(strategy0)]
    /\ \A j \in 1..Len(strategy0) : strategy0[j] <= strategy0[1]
    /\ strategy = [strategy0 EXCEPT ![Len(strategy0)] = @ - 1]

\* scenario B: the repair loop entered with [8, 8, 8], min_bit 1 and bounds
\* [(2, 8), (2, 8), (1, 8)] has returned
ScenarioBReturned ==
    /\ pc = "quantize"
    /\ min_bit = 1
    /\ bound_list = <<(<<2, 8>>), (<<2, 8>>), (<<1, 8>>)>>
    /\ strategy0 = <<8, 8, 8>>

\* C4 as claimed: with an evaluator that passes [2, 2, 1] only, scenario B
\* returns at [2, 2, 1] after exactly 12 decrements.  A return anywhere else is
\* one the evaluator passed, which this evaluator does not.
C4_ScenarioB12 ==
    ScenarioBReturned =>
        IF strategy = <<2, 2, 1>> THEN decs = 12 ELSE Geq(wall_ret.fps, target_fps)

\* C4, amended: with an evaluator that passes [2, 2, 1] only, scenario B
\* returns at [2, 2, 1] after exactly 19 decrements, one per unit of
\* (8 - 2) + (8 - 2) + (8 - 1).
C4_ScenarioB19 ==
    ScenarioBReturned =>
        IF strategy = <<2, 2, 1>> THEN decs = 19 /\ evals = 20
        ELSE Geq(wall_ret.fps, target_fps)

C4_Witness ==
    /\ ScenarioBReturned
    /\ strategy = <<2, 2, 1>>
    /\ Geq(wall_ret.fps, target_fps)
    /\ decs = 19

\* C5: the tuple final_action_wall returns comes from its last evaluator call,
\* and that call evaluated the strategy as it stands at the return, on success
\* and on giving up.
C5_ReturnsLastEvaluation ==
    pc = "quantize" =>
        /\ wall_ret.snap.call = evals
        /\ wall_ret.snap.of = strategy
        /\ wall_ret.fps = <<Freq, wall_ret.snap.cycles>>

C5_Witness ==
    /\ pc = "quantize"
    /\ decs >= 1
    /\ ~Geq(wall_ret.fps, target_fps)
    /\ wall_ret.snap.of = strategy

\* C6: after a reset, the first N - 1 decisions of a catalog of N entries
\* return done = False and reward 0, without entering the repair loop, and the
\* N-th returns done = True; in scenario A the raw actions 1.0, 1.0, 1.0 give
\* [8, 8, 8] before repair.
C6_DoneOnLastEntry ==
    /\ (ret.call = "step" /\ Len(strategy) <= NumEntries) =>
          /\ ret.done <=> Len(strategy) = NumEntries
          /\ ~ret.done => ret.reward = <<0, 1>>
    /\ pc = "wall" => Len(strategy) >= NumEntries
    /\ (ret.call = "step" /\ ret.done /\ Len(strategy) = NumEntries
          /\ policy = {<<1, 1>>} /\ bound_list = <<(<<2, 8>>), (<<2, 8>>), (<<1, 8>>)>>) =>
          strategy0 = <<8, 8, 8>>

C6_Witness ==
    /\ ret.call = "step" /\ ret.done
    /\ policy = {<<1, 1>>}
    /\ bound_list = <<(<<2, 8>>), (<<2, 8>>), (<<1, 8>>)>>
    /\ Len(strategy) = 3
    /\ strategy0 = <<8, 8, 8>>

\* C7 as claimed: 0 <= cursor < len(catalog) always, and len(strategy) ==
\* cursor + 1 after every return from step.
C7_CursorInvariant ==
    NumEntries > 0 =>
        /\ 0 <= cur_ind /\ cur_ind < NumEntries
        /\ ret.call = "step" => Len(strategy) = cur_ind + 1

\* C7, amended: 0 <= cursor < len(catalog) always; within an episode, after a
\* non-terminal decision len(strategy) == cursor, and after the terminal
\* decision len(strategy) == cursor + 1 == len(catalog).
C7_CursorInvariantAmended ==
    NumEntries > 0 =>
        /\ 0 <= cur_ind /\ cur_ind < NumEntries
        /\ (ret.call = "step" /\ Len(strategy) <= NumEntries) =>
              Len(strategy) = cur_ind + (IF ret.done THEN 1 ELSE 0)
        /\ (ret.call = "step" /\ ret.done /\ Len(strategy) <= NumEntries) =>
              Len(strategy) = NumEntries

C7_Witness ==
    /\ ret.call = "step" /\ ~ret.done
    /\ NumEntries = 3
    /\ cur_ind = 2
    /\ Len(strategy) = 2

\* C8: reset, from any state it is called in (a new environment, the middle
\* of an episode, after a terminal decision, after a further step), returns an
\* observation and leaves the controller awaiting a decision with cursor 0, an
\* empty strategy, no repair loop entered, and the catalog, bounds, feature
\* rows and float model of a newly constructed environment, which is all that
\* the decisions of an episode read.
C8_ResetRestoresEpisodeStart ==
    [][Reset =>
          /\ pc' = "await" /\ error' = "none"
          /\ ret'.call = "reset"
          /\ cur_ind' = 0
          /\ strategy' = <<>>
          /\ quantizable_idx' = QuantizableIdx(graph)
          /\ num_quant_acts' = NumQuantActs(graph)
          /\ bound_list' = BoundList(graph, min_bit, max_bit)
          /\ emb_last' = LastColumn(graph, max_bit)
          /\ model' = FloatModel(graph)
          /\ caller' = "none" /\ decs' = 0 /\ evals' = 0
          /\ ret'.obs_last = max_bit]_vars

\* reset has returned after an episode that ended with a reward, on a catalog
\* of two entries or more whose last decision was below max_bit
C8_Witness ==
    /\ ret.call = "reset"
    /\ pc = "await"
    /\ best_reward # MinusInf
    /\ NumEntries >= 2
    /\ last_action < max_bit
    /\ emb_last = LastColumn(graph, max_bit)
    /\ model = FloatModel(graph)

\* the stops the program provides for a configuration it cannot work with:
\* print('Initial model infeasible') and exit() in maximum_fps;
\* build_state_embedding provides none
ConfigurationErrors == {"SystemExit"}

\* C9: when the minimum-bit-width evaluation of the probe yields a
\* non-positive cycle count (-1 or 0), the probe stops the process with the
\* fatal configuration error, no max_fps is computed and target_fps is not
\* modified.
C9_ProbeStopsOnNonPositiveCycles ==
    (probe.calls = 1 /\ probe.cycles <= 0) =>
        /\ pc = "halted"
        /\ error \in ConfigurationErrors
        /\ probe.fps = None
        /\ target_fps = <<target0, 1>>

\* C10: after a probe with positive cycles, target_fps is max_fps if max_fps
\* is below the configured target and the configured target otherwise, in this
\* and every later state; it is at most max_fps and never above the
\* configured target.
C10_ProbeClampsTarget ==
    (probe.ran /\ probe.fps # None) =>
        LET max_fps == <<Freq, probe.cycles>>
            configured == <<target0, 1>>
        IN  /\ probe.cycles > 0
            /\ probe.fps = max_fps
            /\ target_fps = IF Less(max_fps, configured) THEN max_fps ELSE configured
            /\ Geq(max_fps, target_fps)
            /\ Geq(configured, target_fps)

C10_Witness ==
    /\ probe.ran /\ probe.fps # None
    /\ Less(target_fps, <<target0, 1>>)
    /\ pc = "terminal"
    /\ ret.call = "step" /\ ret.done

\* reward has returned a value for the inputs in fn_in
RewardReturned == fn_out # None /\ fn_out.err = "none"

\* the utilization ratio of resource r in the inputs of reward
InUtil(r) == <<fn_in.total[r], fn_in.avail[r]>>

\* C11: whatever the three utilization ratios are, orderings and ties
\* included, every resource receives a weight, and the three weights are a
\* permutation of 0.35, 0.25, 0.15, so they sum to 0.75.
C11_WeightsPermutation ==
    RewardReturned =>
        /\ DOMAIN fn_out.weights = Resources
        /\ {fn_out.weights[r] : r \in Resources} = {35, 25, 15}
        /\ fn_out.weights["BRAM_18K"] + fn_out.weights["LUT"] + fn_out.weights["DSP"] = 75

C11_Witness ==
    /\ RewardReturned
    /\ fn_in.total["BRAM_18K"] > 0
    /\ \A r \in Resources : ~Less(InUtil(r), InUtil("BRAM_18K"))
                              /\ ~Less(InUtil("BRAM_18K"), InUtil(r))
    /\ fn_out.weights = [BRAM_18K |-> 35, LUT |-> 25, DSP |-> 15]

\* the fixed priority that resolves equal ratios: memory > logic > arithmetic
Priority(r) == IF r = "BRAM_18K" THEN 3 ELSE IF r = "LUT" THEN 2 ELSE 1

\* C12: the weights 0.35, 0.25, 0.15 go to the resources in descending order
\* of used / available, equal ratios being ordered BRAM > LUT > DSP: a resource
\* ranked before another one gets the strictly larger weight, so a strictly
\* higher ratio never gets a smaller weight.
C12_WeightsFollowRanking ==
    RewardReturned =>
        \A r1, r2 \in Resources :
            (\/ Less(InUtil(r2), InUtil(r1))
             \/ /\ ~Less(InUtil(r1), InUtil(r2)) /\ ~Less(InUtil(r2), InUtil(r1))
                /\ Priority(r1) > Priority(r2))
            => fn_out.weights[r1] > fn_out.weights[r2]

C12_Witness ==
    /\ RewardReturned
    /\ Less(InUtil("BRAM_18K"), InUtil("LUT"))
    /\ ~Less(InUtil("LUT"), InUtil("DSP")) /\ ~Less(InUtil("DSP"), InUtil("LUT"))
    /\ fn_out.weights = [LUT |-> 35, DSP |-> 25, BRAM_18K |-> 15]

\* C13: for available > 0 the term of a resource is -1 when used == available,
\* +1 when used == 0, 2 * (available - used) / available - 1 in every case, and
\* below -1 when used > available.
C13_ResourceTerm ==
    RewardReturned =>
        \A r \in Resources :
            LET u == fn_in.total[r]
                a == fn_in.avail[r]
                t == fn_out.terms[r]
            IN  /\ t[2] > 0
                /\ u = a => t[1] = -t[2]
                /\ u = 0 => t[1] = t[2]
                /\ (t[1] + t[2]) * a = 2 * (a - u) * t[2]
                /\ u > a => t[1] < -t[2]

C13_Witness ==
    /\ RewardReturned
    /\ fn_in.total["BRAM_18K"] = 0
    /\ fn_in.total["LUT"] = fn_in.avail["LUT"]
    /\ fn_in.total["DSP"] > fn_in.avail["DSP"]
    /\ fn_out.terms["DSP"][1] < -fn_out.terms["DSP"][2]

\* C14: for an accuracy in [0, 100] and 0 <= used <= available on the three
\* resources the reward lies in [-1, 1]; it is -1 at accuracy 0 with every
\* resource fully used and +1 at accuracy 100 with nothing used; a reward below
\* -1 needs a resource over budget.
C14_RewardRange ==
    RewardReturned =>
        LET rw == fn_out.reward
            within == \A r \in Resources : fn_in.total[r] <= fn_in.avail[r]
            full == \A r \in Resources : fn_in.total[r] = fn_in.avail[r]
            unused == \A r \in Resources : fn_in.total[r] = 0
        IN  /\ rw[2] > 0
            /\ within => -100 * rw[2] <= rw[1] /\ rw[1] <= 100 * rw[2]
            /\ (fn_in.acc = 0 /\ full) => rw[1] = -100 * rw[2]
            /\ (fn_in.acc = 100 /\ unused) => rw[1] = 100 * rw[2]
            /\ rw[1] < -100 * rw[2] => ~within

C14_Witness ==
    /\ RewardReturned
    /\ fn_in.acc = 0
    /\ \A r \in Resources : fn_in.total[r] = fn_in.avail[r]
    /\ fn_out.reward[1] = -100 * fn_out.reward[2]

\* the catalog is as build_state_embedding left it: no quantizer call has been
\* handed quantizable_idx since
CatalogFresh ==
    \/ pc = "probe"
    \/ ret.call = "reset"
    \/ testing /\ pc = "await" /\ ret = NoRet

\* C15: the catalog lists every quantizable activation of the graph, in graph
\* order, and then every quantizable compute layer, in graph order; exactly the
\* first num_quant_acts slots are activations, and bound_list and the feature
\* rows have one entry per slot of quantizable_idx.
C15_CatalogOrdering ==
    CatalogFresh =>
        LET n == Len(quantizable_idx)
            segment(i) == i <= num_quant_acts
        IN  /\ Len(bound_list) = n /\ Len(emb_last) = n
            /\ num_quant_acts <= n
            /\ \A i \in 1..n :
                  /\ quantizable_idx[i] \in 0..(Len(graph) - 1)
                  /\ At(graph, quantizable_idx[i]) = IF segment(i) THEN "act" ELSE "layer"
            /\ \A i, j \in 1..n :
                  (i < j /\ segment(i) = segment(j)) => quantizable_idx[i] < quantizable_idx[j]
            /\ \A p \in 0..(Len(graph) - 1) :
                  At(graph, p) \in {"act", "layer", "unmeasured"} =>
                      \E i \in 1..n : quantizable_idx[i] = p

C15_Witness ==
    /\ ret.call = "reset"
    /\ num_quant_acts = 1
    /\ Len(quantizable_idx) = 2
    /\ quantizable_idx[1] > quantizable_idx[2]
    /\ At(graph, quantizable_idx[1]) = "act"

\* C16: a compute-layer entry has bounds (min_bit, max_bit); an activation
\* entry has (2, max_bit) when min_bit is 1 and (min_bit, max_bit) otherwise;
\* every entry of the strategy stays within the bounds of its catalog entry, so
\* no activation is ever at 1 bit, after the action mapper or after repair.
C16_BitBounds ==
    /\ \A i \in 1..Len(bound_list) :
          bound_list[i] = IF i <= num_quant_acts /\ min_bit = 1 THEN <<2, max_bit>>
                          ELSE <<min_bit, max_bit>>
    /\ \A i \in 1..Len(strategy) :
          /\ i <= Len(bound_list) =>
                bound_list[i][1] <= strategy[i] /\ strategy[i] <= bound_list[i][2]
          /\ i <= num_quant_acts => strategy[i] >= 2

C16_Witness ==
    /\ pc = "quantize"
    /\ min_bit = 1
    /\ num_quant_acts >= 1
    /\ Len(strategy) > num_quant_acts
    /\ strategy[1] = 2
    /\ strategy[Len(strategy)] = 1
    /\ decs >= 1
    /\ ~Geq(wall_ret.fps, target_fps)

\* C17: an environment whose network has no quantizable activation and no
\* quantizable compute layer fails with the configuration error at
\* construction: it never awaits a decision, takes none and returns from no
\* call, reset included.
C17_EmptyCatalogFails ==
    (\A p \in 1..Len(graph) : graph[p] = "other") =>
        /\ pc = "halted"
        /\ error \in ConfigurationErrors
        /\ quantizable_idx = <<>>
        /\ strategy = <<>>
        /\ ret = NoRet
        /\ ~probe.ran

\* the statements of a terminal step between the return of final_action_wall
\* and the return of step, in program order
TerminalStages == <<"quantize", "calibrate", "finetune", "validate", "reward", "return">>

\* the position after statement p of a terminal step
StageAfter(p) ==
    IF p = "return" THEN "terminal"
    ELSE TerminalStages[1 + CHOOSE i \in 1..Len(TerminalStages) : TerminalStages[i] = p]

\* a terminal step is at one of its statements after final_action_wall
InTerminalStage(c) ==
    caller = c /\ \E i \in 1..Len(TerminalStages) : TerminalStages[i] = pc

\* C18: giving up is not an error.  A repair loop entered within an episode
\* stops the process only when the quantizer or the evaluator fails, never
\* because no decrement is left; once it has returned to step, met or not, the
\* terminal decision completes: it computes the reward from the accuracy
\* validated and the metrics the loop returned, keeps the strategy and returns
\* done = True.
C18_ExhaustionNonFatal ==
    /\ [][(pc = "wall" /\ pc' = "halted" /\ InBounds(strategy0, bound_list)) =>
             error' \in {"KeyError", "EvaluatorError", "ValueError", "ZeroDivisionError"}]_vars
    /\ [][InTerminalStage("step") =>
             /\ pc' = StageAfter(pc)
             /\ error' = "none"
             /\ strategy' = strategy
             /\ pc' # "terminal" => wall_ret' = wall_ret]_vars
    /\ []((InTerminalStage("step") /\ pc \notin {"quantize", "calibrate"}) =>
             model.quantized)
    /\ []((pc = "return" /\ caller = "step") =>
             step_reward = ScoredReward(cur_acc, wall_ret.snap))
    /\ [][(pc = "return" /\ caller = "step") =>
             /\ pc' = "terminal"
             /\ error' = "none"
             /\ ret'.call = "step" /\ ret'.done
             /\ ret'.fps = wall_ret.fps
             /\ ret'.scored = wall_ret.snap
             /\ ret'.acc = cur_acc
             /\ ret'.reward = ScoredReward(ret'.acc, wall_ret.snap)
             /\ strategy' = strategy]_vars

C18_Witness ==
    /\ pc = "terminal"
    /\ ret.call = "step" /\ ret.done
    /\ error = "none"
    /\ ~Geq(ret.fps, target_fps)
    /\ decs >= 1
    /\ ret.scored.of = strategy
    /\ \A i \in 1..Len(strategy) : strategy[i] = bound_list[i][1]

\* C20: between one reset and the next, no step, repair-loop iteration or
\* quantizer call changes quantizable_idx, bound_list or num_quant_acts.
C20_CatalogReadOnly ==
    [][(pc # "probe" /\ ret'.call # "reset") => UNCHANGED catalog_vars]_vars

\* C19: the strategy list reported with done = True is never changed
\* afterwards: not by reset, not by the decisions of the next episode, not by a
\* step called without reset.  The environment writes a list only through
\* self.strategy, so the reported list can change only while self.strategy
\* names it.
C19_ReportedStrategyFrozen ==
    [][(info_strategy = Reported /\ info_strategy' = Reported) => strategy' = strategy]_vars

\* C21: the repair loop gives up only at exhaustion.  Whenever
\* final_action_wall has returned with fps below the target, every strategy
\* entry equals the lower bound of its catalog entry: no entry could still be
\* decremented.
C21_GivesUpOnlyAtExhaustion ==
    (pc = "quantize" /\ Less(wall_ret.fps, target_fps)) =>
        /\ Len(strategy) = Len(bound_list)
        /\ \A i \in 1..Len(strategy) : strategy[i] = bound_list[i][1]

C21_Witness ==
    /\ pc = "quantize"
    /\ Less(wall_ret.fps, target_fps)
    /\ min_bit = 1
    /\ num_quant_acts >= 1
    /\ Len(strategy) > num_quant_acts
    /\ strategy0[1] = 2 /\ strategy0[Len(strategy0)] = 2
    /\ strategy[1] = 2 /\ strategy[Len(strategy)] = 1

\* C22: a decision taken with cursor < len(catalog) - 1 appends exactly one
\* bit-width to the strategy, advances the cursor by exactly one, writes
\* last_action / max_bit into the last feature slot of the new current row and
\* of no other row, returns that row with reward 0 and done = False, and calls
\* neither the quantizer nor the cost evaluator: the model, the catalog and the
\* evaluation count are as before.
C22_NonTerminalDecision ==
    [][(pc = "await" /\ cur_ind < NumEntries - 1 /\ ret'.call = "step") =>
          /\ Len(strategy') = Len(strategy) + 1
          /\ SubSeq(strategy', 1, Len(strategy)) = strategy
          /\ last_action' = strategy'[Len(strategy')]
          /\ cur_ind' = cur_ind + 1
          /\ emb_last' = [emb_last EXCEPT ![cur_ind + 2] = last_action']
          /\ ret'.obs_last = last_action'
          /\ ret'.reward = <<0, 1>> /\ ~ret'.done
          /\ pc' = "await"
          /\ UNCHANGED <<model, catalog_vars, wall_vars, wall_ret, target_fps>>]_vars

C22_Witness ==
    /\ ret.call = "step" /\ ~ret.done
    /\ NumEntries = 3
    /\ cur_ind = 1
    /\ Len(strategy) = 1
    /\ last_action < max_bit
    /\ emb_last = <<max_bit, last_action, max_bit>>
    /\ ret.obs_last = last_action

ConstructionFailed ==
    /\ pc = "halted" /\ ~probe.ran
    /\ ret = NoRet /\ strategy = <<>> /\ caller = "none"
    /\ error \in {"AttributeError", "IndexError", "TypeError"}

\* quantize_model raised in maximum_fps: the constructor ends before the
\* evaluation
ProbeQuantizeFailed ==
    /\ pc = "halted" /\ probe.calls = 0
    /\ ret = NoRet /\ strategy = <<>> /\ caller = "none"
    /\ error \in {"UnboundLocalError", "KeyError", "IndexError"}

\* C24: the baseline probe runs once, at construction, and only in an
\* environment that is not in evaluation mode.  It evaluates the strategy that
\* holds the lower bound of every catalog entry, calls the cost evaluator once,
\* makes no repair iteration and leaves the episode strategy, the cursor and
\* the working model as they were; an evaluation-mode environment never runs it.
C24_ProbeOnceAtConstruction ==
    /\ [](testing => (~probe.ran /\ pc # "probe"))
    /\ []((~testing /\ pc # "probe" /\ ~ConstructionFailed) =>
             /\ probe.ran
             /\ probe.calls = 1 \/ ProbeQuantizeFailed
             /\ Len(probe.of) = Len(bound_list)
             /\ \A i \in 1..Len(bound_list) : probe.of[i] = bound_list[i][1])
    /\ [][probe' # probe =>
             /\ pc = "probe" /\ ~testing
             /\ ~probe.ran /\ probe'.ran
             /\ ret = NoRet
             /\ UNCHANGED <<strategy, cur_ind, model, decs, evals>>]_vars

C24_Witness ==
    /\ ~testing
    /\ probe.ran /\ probe.calls = 1
    /\ min_bit = 1
    /\ num_quant_acts >= 1
    /\ Len(bound_list) > num_quant_acts
    /\ probe.of[1] = 2 /\ probe.of[Len(probe.of)] = 1
    /\ pc = "terminal"
    /\ ret.call = "step" /\ ret.done

\* the failures that stop final_action_wall: of the quantizer
\* (UnboundLocalError, KeyError), of the cost evaluator (EvaluatorError), and
\* of the evaluation of its answer (ValueError, ZeroDivisionError)
WallFailures ==
    {"UnboundLocalError", "KeyError", "EvaluatorError", "ValueError", "ZeroDivisionError"}

\* C25: a failure raised during an iteration of the repair loop is not caught
\* and not retried.  It ends final_action_wall and step with that failure: the
\* step returns nothing, so no reward and no done = True, best_reward and the
\* model are as before the step, and nothing runs afterwards, the evaluator
\* included.
C25_FailuresPropagate ==
    /\ [](error # "none" <=> pc = "halted")
    /\ []((pc = "halted" /\ caller = "step") =>
             (error \in WallFailures /\ ret = NoRet /\ wall_ret = None))
    /\ [][(pc = "wall" /\ error' # "none") =>
             /\ pc' = "halted"
             /\ evals' \in {evals, evals + 1}
             /\ UNCHANGED <<best_reward, model, strategy, decs, ret, wall_ret, cur_ind>>]_vars
    /\ [][pc # "halted"]_vars

C25_Witness ==
    /\ pc = "halted"
    /\ error = "EvaluatorError"
    /\ evals >= 2 /\ decs >= 1
    /\ best_reward # MinusInf
    /\ ret = NoRet
    /\ wall_ret = None
    /\ ~model.quantized

\* C26: nothing in the environment keeps two instances apart.  When the
\* caller runs one pipeline at a time, or gives the instances different
\* working directories, every evaluation reads the model its own instance
\* exported in the same iteration; in a shared directory with interleaved
\* pipelines an evaluation may read the export of the other instance.
C26_ExportIsolation ==
    \A i \in Instances :
        (inst[i].pc = "idle" /\ inst[i].read # None
           /\ (serial \/ \A j \in Instances \ {i} : inst[j].wd # inst[i].wd)) =>
            inst[i].read = <<i, inst[i].iter>>

C26_Witness ==
    /\ ~serial
    /\ inst[1].wd = inst[2].wd
    /\ inst[1].pc = "idle"
    /\ inst[1].iter = 2
    /\ inst[1].read # None
    /\ inst[1].read[1] = 2

\* C27: the normalization scales every column whose values differ between
\* rows so that its least value becomes 0 and its greatest 1, and leaves a
\* column whose rows all hold one value, the column of a single-row catalog
\* included, exactly as it was; no division has a zero divisor.
C27_Normalization ==
    fn_out # None =>
        /\ Len(fn_out) = Len(fn_in)
        /\ \A c \in 1..NormCols :
              LET rows == 1..Len(fn_in)
                  differ == \E r1, r2 \in rows : fn_in[r1][c] # fn_in[r2][c]
              IN  /\ \A r \in rows : fn_out[r][c][2] > 0
                  /\ differ =>
                        \A r \in rows :
                            /\ 0 <= fn_out[r][c][1] /\ fn_out[r][c][1] <= fn_out[r][c][2]
                            /\ (\A q \in rows : fn_in[r][c] <= fn_in[q][c]) =>
                                  fn_out[r][c][1] = 0
                            /\ (\A q \in rows : fn_in[q][c] <= fn_in[r][c]) =>
                                  fn_out[r][c][1] = fn_out[r][c][2]
                  /\ ~differ => \A r \in rows : fn_out[r][c] = <<fn_in[r][c], 1>>

C27_Witness ==
    /\ fn_out # None
    /\ Len(fn_in) = 3
    /\ fn_in[1][1] = 0 /\ fn_in[2][1] = 1 /\ fn_in[3][1] = 2
    /\ \A r \in 1..3 : fn_in[r][2] = 2
    /\ fn_out[1][1][1] = 0
    /\ 2 * fn_out[2][1][1] = fn_out[2][1][2]
    /\ fn_out[3][1][1] = fn_out[3][1][2]
    /\ \A r \in 1..3 : fn_out[r][2] = <<2, 1>>

\* C28: in every state, the intermediate states of the repair loop included,
\* each strategy entry lies within the bounds of its catalog entry; an entry
\* appended by a step taken after the last catalog entry lies within the bounds
\* of that last entry.
C28_StrategyInBounds ==
    \A i \in 1..Len(strategy) :
        LET b == IF i <= Len(bound_list) THEN bound_list[i] ELSE bound_list[Len(bound_list)]
        IN  b[1] <= strategy[i] /\ strategy[i] <= b[2]

C28_Witness ==
    /\ pc = "wall"
    /\ decs = 1
    /\ Len(strategy) = Len(bound_list)
    /\ Len(strategy) >= 2
    /\ strategy[1] = bound_list[1][2]
    /\ strategy[1] > bound_list[1][1]
    /\ strategy[Len(strategy)] = bound_list[Len(strategy)][1]

\* C29: in a training environment the probe leaves target_fps at most max_fps,
\* the rate of the strategy of lower bounds.  The repair loop can give up at
\* that strategy only, so a return with fps below the target is one where the
\* evaluator reported for that strategy another cycle count than it reported
\* to the probe: with an evaluator that is deterministic in the strategy the
\* loop never gives up.
C29_NeverGivesUpAfterProbe ==
    (pc = "quantize" /\ ~testing) =>
        /\ probe.ran /\ probe.fps # None
        /\ Geq(probe.fps, target_fps)
        /\ Less(wall_ret.fps, target_fps) =>
              /\ strategy = probe.of
              /\ wall_ret.snap.of = probe.of
              /\ wall_ret.snap.cycles # probe.cycles
        /\ (wall_ret.snap.of = probe.of /\ wall_ret.snap.cycles = probe.cycles) =>
              Geq(wall_ret.fps, target_fps)

C29_Witness ==
    /\ pc = "quantize"
    /\ ~testing
    /\ probe.cycles >= 2
    /\ Less(target_fps, <<target0, 1>>)
    /\ decs >= 2
    /\ strategy = probe.of
    /\ wall_ret.snap.cycles = probe.cycles
    /\ wall_ret.fps = target_fps
    /\ ret.call = "none" /\ best_reward # MinusInf

\* the result of reward for the inputs in fn_in with one more unit of
\* resource r used
RewardWithOneMore(r) ==
    Reward(fn_in.acc, fn_in.avail, [fn_in.total EXCEPT ![r] = @ + 1])

\* x <= y on two fractions
FracLeq(x, y) == Lowest(x)[1] * Lowest(y)[2] <= Lowest(y)[1] * Lowest(x)[2]

\* C30: with the accuracy and the available budgets fixed, one more used unit
\* of any single resource never raises the reward, whether or not it changes
\* the ranking of the utilization ratios and with it the weights.
C30_RewardMonotone ==
    RewardReturned =>
        \A r \in Resources :
            FracLeq(RewardWithOneMore(r).reward, fn_out.reward)

C30_Witness ==
    /\ RewardReturned
    /\ fn_out.weights["BRAM_18K"] = 35
    /\ fn_in.total["LUT"] > 0
    /\ RewardWithOneMore("LUT").weights["LUT"] = 35
    /\ ~FracLeq(fn_out.reward, RewardWithOneMore("LUT").reward)

====
